---- MODULE Spec2Model ----
(***************************************************************************)
(* The paginated tweet-collection loop of the five collection scripts:     *)
(*   tweet1  = src/1k.tweet.py            tweet2 = src/1k.tweet_2.py       *)
(*   tweet3  = src/1k.tweet_3.py          dynX   = src/Dynamic_scrapping_X.py *)
(*   dynInit = src/Dynamic_scrapping/init.py                              *)
(* One behaviour follows one script (chosen in Init) through any number of *)
(* runs: start-up, the loop, abrupt kills and restarts.  The checkpoint    *)
(* file and the CSV file survive a kill; the local variables of the run    *)
(* and the rows still held in the CSV file object's write buffer do not.   *)
(*                                                                         *)
(* Abstractions: tweet ids are 1..MaxId, cursors 1..MaxCursor, a CSV row is *)
(* its first column (the id; HDR for the header row 'ID'); the timestamps  *)
(* last_success_time / last_success are left out (nothing reads them); a   *)
(* kill keeps whole rows of the write buffer, never part of a row; a       *)
(* missing CSV file and an empty one are not told apart (every script      *)
(* treats them alike); QUERY_HASH is taken to be injective on queries.     *)
(***************************************************************************)
EXTENDS Integers, Sequences, FiniteSets, TLC

VARIABLES
    script,      \* which script this behaviour runs
    query,       \* QUERY of the current run (the identity the user asked for)
    pc,          \* position of the run
    mem,         \* the local variables of run() / run_all_operations()
    ckptStore,   \* checkpoint files, by file
    sinkStore,   \* CSV files (durable rows), by file
    runs,        \* number of runs started so far
    client,      \* the Search Client when phase # "free"; in phase "two",
                 \* the instance that is not being stepped
    phase,       \* "free"; "ref"/"test" when a reference run is compared;
                 \* "rot", "steady": one run against a scripted client;
                 \* "two": two instances side by side;
                 \* "day": one run of Dynamic_scrapping/init.py;
                 \* "adv": one run, result.next() returns pages with tweets;
                 \* "main2": one run of main2.py
    refIds,      \* record ids the reference run ended with
    resume       \* what a run killed in its delay would have used next

vars == <<script, query, pc, mem, ckptStore, sinkStore, runs, client, phase, refIds, resume>>

----------------------------------------------------------------------------
(* Bounds of the model *)
MaxId == 2
MaxCursor == 2
BATCH_SIZE == 2
MAX_TWEETS == 2
MAX_FAILURES == 2
MaxRuns == 3
(* the failure cap of 1k.tweet_2.py (20 in the source): above the number of
   query variations, so that the variation index goes all the way round *)
MaxFailures2 == 9
NumQueries == 2

(* Program constants *)
MAX_RETRIES == 3
NumVariations == 8
NoNewPagesLimit == 3

None == 0
HDR == 0

(* time.time() at the moment a rate-limit answer is handled *)
Now == 1000

(* the longest write buffer: the header and the rows of one run *)
MaxBuf == MAX_TWEETS + BATCH_SIZE

Scripts == {"tweet1", "tweet2", "tweet3", "dynX", "dynInit"}
Ids == 1..MaxId
Cursors == 1..MaxCursor
Queries == 1..NumQueries
Files == 1..NumQueries

RECURSIVE SeqsUpTo(_, _)
SeqsUpTo(S, n) ==
    IF n = 0 THEN {<<>>}
    ELSE LET shorter == SeqsUpTo(S, n - 1)
         IN  shorter \cup {Append(s, x) : s \in shorter, x \in S}

Range(s) == {s[i] : i \in 1..Len(s)}

----------------------------------------------------------------------------
(* Which script does what *)
IsDynamic(s) == s \in {"dynX", "dynInit"}

products == <<"Top", "Latest", "Media">>
SEARCH_STRATEGIES == <<"Latest", "Top">>

(* a product rotation that does not move *)
NextProductSame(p) == p

(* products[(products.index(product) if product in products else 0) + 1 mod 3] *)
NextProduct(p) ==
    LET current_index == IF \E i \in 1..Len(products) : products[i] = p
                         THEN (CHOOSE i \in 1..Len(products) : products[i] = p) - 1
                         ELSE 0
        next_index == (current_index + 1) % Len(products)
    IN  products[next_index + 1]

(* CHECKPOINT_FILE / TWEETS_FILE: per query hash in tweet3, fixed otherwise
   (the account and the day of the Dynamic scripts are the same in every run) *)
FileOf(s, q) == IF s = "tweet3" THEN q ELSE 1

----------------------------------------------------------------------------
(* The sleeps inside safe_search / safe_search_with_retry *)
RETRY_DELAYS == <<5, 15, 30>>

Max(a, b) == IF a >= b THEN a ELSE b
Min(a, b) == IF a <= b THEN a ELSE b

(* rate_limit_reset of a TooManyRequests: absent, in the past, in the future *)
ResetTimes == {None, Now - 100, Now + 500}

(* the seconds added to the time left until the reset *)
Margin(s) == IF IsDynamic(s) THEN 5 ELSE 10

(* wait_time with the clamp left out *)
RateLimitWaitUnclamped(s, reset_time, now, attempt) ==
    IF IsDynamic(s)
    THEN IF reset_time # None
         THEN (reset_time - now) + 5
         ELSE RETRY_DELAYS[Min(attempt, Len(RETRY_DELAYS) - 1) + 1]
    ELSE LET rt == IF reset_time = None THEN now + 900 ELSE reset_time
         IN  (rt - now) + 10

(* wait_time of the `except TooManyRequests` branch; attempt is the index of
   the for-loop of safe_search_with_retry *)
RateLimitWait(s, reset_time, now, attempt) ==
    IF IsDynamic(s)
    THEN IF reset_time # None
         THEN Max(reset_time - now, 0) + 5
         ELSE RETRY_DELAYS[Min(attempt, Len(RETRY_DELAYS) - 1) + 1]
    ELSE LET rt == IF reset_time = None THEN now + 900 ELSE reset_time
         IN  Max(rt - now, 0) + 10

(* a sleep that does not climb the ladder: RETRY_DELAYS[0] every time *)
ErrorWaitFirstRung(s, attempt) ==
    IF IsDynamic(s)
    THEN IF attempt < MAX_RETRIES - 1 THEN RETRY_DELAYS[1] ELSE 0
    ELSE 60

(* the sleep of the `except Exception` branch: 60 in safe_search, and
   RETRY_DELAYS[attempt] before every attempt but the last in
   safe_search_with_retry (0: no sleep) *)
ErrorWait(s, attempt) ==
    IF IsDynamic(s)
    THEN IF attempt < MAX_RETRIES - 1 THEN RETRY_DELAYS[attempt + 1] ELSE 0
    ELSE 60

----------------------------------------------------------------------------
(* init_client() / main(): what config.ini holds for the account (section
   'X' in the 1k.tweet scripts), the state of the cookies file, and whether
   client.login succeeds *)
Configs == {"ok", "unknown_account", "missing_key"}
CookieFiles == {"none", "unreadable", "expired", "valid"}

(* an init_client that tries the cookies before it reads config.ini, as the
   1k.tweet scripts do *)
init_client_cookies_first(s, config, cookies, login_ok) ==
    IF cookies = "valid" THEN [client |-> TRUE, contacted |-> TRUE, error |-> "none"]
    ELSE IF config # "ok"
         THEN [client |-> FALSE, contacted |-> cookies = "expired", error |-> config]
         ELSE [client |-> login_ok, contacted |-> TRUE,
               error |-> IF login_ok THEN "none" ELSE "login_failed"]

(* client: whether a client is returned (None otherwise); contacted: whether
   a request went to the remote service (get_trends of check_cookies_valid,
   or login); error: why None was returned *)
init_client(s, config, cookies, login_ok) ==
    IF IsDynamic(s)
    THEN IF config # "ok"
         THEN [client |-> FALSE, contacted |-> FALSE, error |-> config]
         ELSE IF cookies = "valid"
              THEN [client |-> TRUE, contacted |-> TRUE, error |-> "none"]
              ELSE [client |-> login_ok, contacted |-> TRUE,
                    error |-> IF login_ok THEN "none" ELSE "login_failed"]
    ELSE IF cookies = "valid"
         THEN [client |-> TRUE, contacted |-> TRUE, error |-> "none"]
         ELSE IF config # "ok"
              THEN [client |-> FALSE, contacted |-> cookies = "expired", error |-> config]
              ELSE [client |-> login_ok, contacted |-> TRUE,
                    error |-> IF login_ok THEN "none" ELSE "login_failed"]

(* what init_client can return, over every config.ini and cookies file *)
InitClientResults(s) ==
    {init_client(s, config, cookies, login_ok) :
        config \in Configs, cookies \in CookieFiles, login_ok \in BOOLEAN}

----------------------------------------------------------------------------
(* Checkpoint files *)
Missing == [kind |-> "missing", data |-> [count |-> 0], owner |-> 0]
Unparsable == [kind |-> "corrupt", data |-> [count |-> 0], owner |-> 0]
Json(d, q) == [kind |-> "json", data |-> d, owner |-> q]

Has(d, k) == k \in DOMAIN d
Get(d, k, default) == IF k \in DOMAIN d THEN d[k] ELSE default

DefaultCkpt(s, q) ==
    CASE s = "tweet1" -> [count |-> 0, cursor |-> None, product |-> "Latest"]
      [] s = "tweet2" -> [count |-> 0, cursor |-> None, strategy_index |-> 0,
                          last_successful_strategy |-> 0, consecutive_failures |-> 0,
                          query_variations |-> 0]
      [] s = "tweet3" -> [query_hash |-> q, count |-> 0, cursor |-> None]
      [] OTHER        -> [count |-> 0, cursor |-> None]

(* a load_checkpoint() that never reads the file: every run starts afresh *)
load_checkpoint_fresh(s, file, q) == DefaultCkpt(s, q)

(* load_checkpoint(): the file's dict, or the defaults *)
load_checkpoint(s, file, q) ==
    IF file.kind # "json" THEN DefaultCkpt(s, q)
    ELSE IF s = "tweet3" /\ Get(file.data, "query_hash", 0) # q THEN DefaultCkpt(s, q)
    ELSE file.data

(* the subscripts checkpoint['count'] / ckpt['cursor'] that raise KeyError *)
StartupKeyError(s, d) ==
    CASE s \in {"tweet1", "tweet2"} -> ~Has(d, "count")
      [] s \in {"tweet3", "dynX"}   -> ~Has(d, "count") \/ ~Has(d, "cursor")
      [] OTHER                      -> FALSE

(* init_existing_ids(): skip the first row, take column 0 of the others *)
init_existing_ids(rows) == {rows[i] : i \in 2..Len(rows)}

(* the header is written when ... *)
WritesHeader(s, collected_count, rows) ==
    IF s \in {"tweet1", "tweet2"} THEN collected_count = 0 ELSE rows = <<>>

(* generate_query_variations: what each entry of `variations` does to the
   base query.  QUERY of 1k.tweet_2.py holds neither '(to:thmanyahCompany)'
   nor 'lang:ar', so the replace() of entries 1 and 4 changes nothing *)
variations ==
    <<"none", "none", "first_spelling", "second_spelling", "none",
      "since_30_days", "since_60_days", "since_90_days">>

generate_query_variations(base_query, variation_index) ==
    [base |-> base_query,
     edit |-> variations[(variation_index % Len(variations)) + 1]]

(* QUERY as it is, and no query *)
Unvaried(q) == [base |-> q, edit |-> "none"]
NoQuery == Unvaried(0)

(* the (search mode, query variant) pairing of a request, and no pairing *)
NoPairing == [mode |-> "none", variant |-> "none"]
Pairing(s, product, strategy_index, query_variations) ==
    [mode    |-> CASE s = "tweet1" -> product
                   [] s = "tweet2" -> SEARCH_STRATEGIES[strategy_index + 1]
                   [] OTHER        -> "Latest",
     variant |-> IF s = "tweet2"
                 THEN generate_query_variations(0, query_variations).edit
                 ELSE "none"]

InitMem ==
    [count |-> 0, cursor |-> None, product |-> "Latest", strategy_index |-> 0,
     last_successful_strategy |-> 0, query_variations |-> 0, failures |-> 0,
     existing_ids |-> {}, no_new_pages |-> 0, seen_cursors |-> {}, attempt |-> 0,
     buf |-> <<>>, result_cursor |-> None, skip_delay |-> FALSE, fetched |-> FALSE, save_ok |-> FALSE,
     wait |-> 0, reset_time |-> None, errors |-> 0, outcome |-> "none",
     delay |-> <<0, 0>>, fetched_under |-> NoPairing, cursor_from |-> NoPairing,
     current_query |-> NoQuery, rotations |-> 0, reached |-> FALSE,
     fetches |-> 0, stop |-> "none", init_error |-> "none", contacted |-> FALSE,
     prev_file |-> Missing, obtained |-> {}]

(* the locals after start-up, from the loaded checkpoint d and the CSV rows *)
StartMem(s, d, rows) ==
    LET collected == Get(d, "count", 0)
    IN  [InitMem EXCEPT
            !.count = collected,
            !.cursor = Get(d, "cursor", None),
            !.product = IF s = "tweet1" THEN Get(d, "product", "Latest") ELSE "Latest",
            !.strategy_index = IF s = "tweet2" THEN Get(d, "strategy_index", 0) ELSE 0,
            !.last_successful_strategy =
                IF s = "tweet2" THEN Get(d, "last_successful_strategy", 0) ELSE 0,
            !.failures = IF s = "tweet2" THEN Get(d, "consecutive_failures", 0) ELSE 0,
            !.query_variations = IF s = "tweet2" THEN Get(d, "query_variations", 0) ELSE 0,
            !.existing_ids = init_existing_ids(rows),
            !.contacted = TRUE,
            !.buf = IF WritesHeader(s, collected, rows) THEN <<HDR>> ELSE <<>>,
            !.cursor_from =
                IF Get(d, "cursor", None) = None THEN NoPairing
                ELSE Pairing(s, Get(d, "product", "Latest"),
                             IF s = "tweet2" THEN Get(d, "strategy_index", 0) ELSE 0,
                             IF s = "tweet2" THEN Get(d, "query_variations", 0) ELSE 0)]

NoResume == [valid |-> FALSE, query |-> 0, count |-> 0, cursor |-> None,
             product |-> "Latest", strategy_index |-> 0, query_variations |-> 0,
             failures |-> 0]

----------------------------------------------------------------------------
(* save_tweets_batch(): the rows it writes, in order (an id already in
   existing_ids, or written earlier in the same batch, is skipped) *)
RECURSIVE save_tweets_batch(_, _)
save_tweets_batch(tweets, existing_ids) ==
    IF tweets = <<>> THEN <<>>
    ELSE IF Head(tweets) \in existing_ids
         THEN save_tweets_batch(Tail(tweets), existing_ids)
         ELSE <<Head(tweets)>> \o
              save_tweets_batch(Tail(tweets), existing_ids \cup {Head(tweets)})

(* save_tweets_batch whose return value is dropped: `collected` stays *)
RecordedUncounted(m, tweets) ==
    LET rows == save_tweets_batch(tweets, m.existing_ids)
    IN  [m EXCEPT !.existing_ids = @ \cup Range(rows),
                  !.buf = @ \o rows]

(* the locals after save_tweets_batch and `collected += added` *)
Recorded(m, tweets) ==
    LET rows == save_tweets_batch(tweets, m.existing_ids)
    IN  [m EXCEPT !.count = @ + Len(rows),
                  !.existing_ids = @ \cup Range(rows),
                  !.buf = @ \o rows]

(* rotations that do not move, and one that does not wrap *)
NextStrategyStay(i) == i
NextStrategyNoWrap(i) == i + 1
NextVariationStay(i) == i

NextStrategy(i) == (i + 1) % Len(SEARCH_STRATEGIES)
NextVariation(i) == (i + 1) % NumVariations

(* a loop that tests the failures alone *)
LoopCondUncapped(s, m) ==
    CASE s = "tweet1" -> TRUE
      [] s = "tweet2" -> m.failures < MaxFailures2
      [] OTHER        -> m.failures < MAX_FAILURES

(* while-condition of the collection loop *)
LoopCond(s, m) ==
    CASE s = "tweet1" -> m.count < MAX_TWEETS
      [] s = "tweet2" -> m.count < MAX_TWEETS /\ m.failures < MaxFailures2
      [] OTHER        -> m.count < MAX_TWEETS /\ m.failures < MAX_FAILURES

NoPage == [kind |-> "none", items |-> <<>>, next_cursor |-> None, reset |-> None]
Page(items, nc) == [kind |-> "page", items |-> items, next_cursor |-> nc, reset |-> None]
RateLimited(r) == [kind |-> "ratelimited", items |-> <<>>, next_cursor |-> None, reset |-> r]
Error == [kind |-> "error", items |-> <<>>, next_cursor |-> None, reset |-> None]

Step(p, m, fl) == [pc |-> p, m |-> m, flush |-> fl]

(* `await result.next()` is called on the page whose next_cursor is nc *)
CallNext(m, nc, fl) == Step("next", [m EXCEPT !.result_cursor = nc], fl)

(* the same without the loop protection *)
AdvanceDynInitUnprotected(m, new_cursor, fl) ==
    IF new_cursor = None THEN Step("exit", [m EXCEPT !.stop = "no_cursor"], fl)
    ELSE Step("save", [m EXCEPT !.cursor = new_cursor,
                                !.seen_cursors = @ \cup {new_cursor}], fl)

(* Dynamic_scrapping/init.py: `if new_cursor: ... else: break`, then the
   seen_cursors loop protection; stop is the break that was taken *)
AdvanceDynInit(m, new_cursor, fl) ==
    IF new_cursor = None THEN Step("exit", [m EXCEPT !.stop = "no_cursor"], fl)
    ELSE IF new_cursor \in m.seen_cursors
         THEN Step("exit", [m EXCEPT !.cursor = new_cursor, !.stop = "repeated"], fl)
         ELSE Step("save", [m EXCEPT !.cursor = new_cursor,
                                     !.seen_cursors = @ \cup {new_cursor}], fl)

(* what the iteration got: no result, a page without tweets, a page whose
   tweets are all in existing_ids, or a page with new tweets *)
Outcome(m, r) ==
    IF r.kind = "none" THEN "noresult"
    ELSE IF r.items = <<>> THEN "empty"
    ELSE IF save_tweets_batch(r.items, m.existing_ids) = <<>> THEN "stale"
    ELSE "new"

(* a failed iteration that nulls the cursor in every script *)
FailedDropsCursor(s, m) == [m EXCEPT !.failures = @ + 1, !.cursor = None]

(* the locals after `failures += 1` of an iteration without tweets:
   1k.tweet_3.py and Dynamic_scrapping_X.py null the cursor,
   Dynamic_scrapping/init.py keeps it ('try again from same spot') *)
Failed(s, m) ==
    IF s = "dynInit" THEN [m EXCEPT !.failures = @ + 1]
    ELSE [m EXCEPT !.failures = @ + 1, !.cursor = None]

(* the loop body from the return of safe_search to the next suspension:
   r is the search result (NoPage for None) *)
OnResult(s, m_in, r) ==
    LET m == [m_in EXCEPT !.outcome = Outcome(m_in, r)]
        empty == r.kind = "none" \/ r.items = <<>>
        rec == Recorded(m, r.items)
        added == rec.count - m.count
    IN
    CASE s = "tweet1" ->
            IF empty
            THEN Step("save", [m EXCEPT !.product = NextProduct(@), !.cursor = None,
                                        !.skip_delay = TRUE], FALSE)
            ELSE IF r.next_cursor # None
                 THEN Step("save", [rec EXCEPT !.cursor = r.next_cursor,
                                               !.skip_delay = FALSE], FALSE)
                 ELSE CallNext([rec EXCEPT !.skip_delay = FALSE], None, FALSE)
      [] s = "tweet2" ->
            IF empty \/ added = 0
            THEN Step("save", [m EXCEPT !.failures = @ + 1,
                                        !.strategy_index = NextStrategy(@),
                                        !.query_variations = NextVariation(@),
                                        !.cursor = None], FALSE)
            ELSE LET ok == [rec EXCEPT !.failures = 0,
                                       !.last_successful_strategy = m.strategy_index,
                                       !.query_variations = 0]
                 IN  IF r.next_cursor # None
                     THEN Step("save", [ok EXCEPT !.cursor = r.next_cursor], FALSE)
                     ELSE CallNext(ok, None, FALSE)
      [] s = "tweet3" ->
            IF empty
            THEN Step("save", Failed(s, m), FALSE)
            ELSE CallNext([rec EXCEPT !.failures = 0], r.next_cursor, FALSE)
      [] s = "dynX" ->
            IF empty
            THEN Step("save", Failed(s, m), FALSE)
            ELSE IF r.next_cursor # None
                 THEN Step("save", [rec EXCEPT !.failures = 0,
                                               !.cursor = r.next_cursor], TRUE)
                 ELSE CallNext([rec EXCEPT !.failures = 0], None, TRUE)
      [] OTHER ->
            IF empty
            THEN Step("save", Failed(s, m), FALSE)
            ELSE LET cnt == [rec EXCEPT !.no_new_pages = IF added = 0 THEN @ + 1 ELSE 0]
                 IN  IF r.next_cursor # None
                     THEN AdvanceDynInit(cnt, r.next_cursor, TRUE)
                     ELSE CallNext(cnt, None, TRUE)

(* the loop body from the return of `await result.next()` on:
   n is the page it returned, or Error when it raised *)
OnNextOf(s, m, n) ==
    LET nc == IF n.kind = "page" THEN n.next_cursor ELSE None
    IN
    CASE s = "tweet1" ->
            IF nc # None THEN Step("save", [m EXCEPT !.cursor = nc], FALSE)
            ELSE IF n.kind = "page"
                 THEN Step("save", [m EXCEPT !.product = NextProduct(@),
                                             !.cursor = None], FALSE)
                 ELSE Step("save", [m EXCEPT !.cursor = None], FALSE)
      [] s = "tweet2" ->
            IF nc # None THEN Step("save", [m EXCEPT !.cursor = nc], FALSE)
            ELSE Step("save", [m EXCEPT !.cursor = None,
                                        !.strategy_index = NextStrategy(@)], FALSE)
      [] s \in {"tweet3", "dynX"} -> Step("save", [m EXCEPT !.cursor = nc], FALSE)
      [] OTHER -> AdvanceDynInit(m, nc, FALSE)

OnNext(s, m, n) == OnNextOf(s, [m EXCEPT !.result_cursor = None], n)

(* json.dump argument of save_checkpoint *)
SavedData(s, m, q) ==
    CASE s = "tweet1" -> [count |-> m.count, cursor |-> m.cursor, product |-> m.product]
      [] s = "tweet2" -> [count |-> m.count, cursor |-> m.cursor,
                          strategy_index |-> m.strategy_index,
                          last_successful_strategy |-> m.last_successful_strategy,
                          consecutive_failures |-> m.failures,
                          query_variations |-> m.query_variations]
      [] s = "tweet3" -> [query_hash |-> q, count |-> m.count, cursor |-> m.cursor]
      [] s = "dynX"   -> [count |-> m.count, cursor |-> m.cursor]
      [] OTHER        -> [count |-> m.count, cursor |-> m.cursor, query |-> q]

(* a loop without the 'no new unique tweets' stop *)
AfterSaveNeverStops(s, m) ==
    CASE s = "tweet1"  -> IF m.skip_delay THEN "loop" ELSE "delay"
      [] OTHER         -> "delay"

(* where the loop goes after save_checkpoint returned *)
AfterSave(s, m) ==
    CASE s = "tweet1"  -> IF m.skip_delay THEN "loop" ELSE "delay"
      [] s = "dynInit" -> IF m.no_new_pages >= NoNewPagesLimit THEN "exit" ELSE "delay"
      [] OTHER         -> "delay"

(* a window of delays that is the same after every iteration *)
DelayWindowFast(s, m) ==
    CASE s = "tweet1"               -> <<10, 10>>
      [] s \in {"tweet2", "tweet3"} -> <<30, 90>>
      [] OTHER                      -> <<5, 15>>

(* `delay = ...` before asyncio.sleep(delay): the bounds <<low, high>> of the
   random.randint it is drawn from, times the failure count where the script
   multiplies *)
DelayWindow(s, m) ==
    CASE s = "tweet1"               -> <<10, 10>>
      [] s \in {"tweet2", "tweet3"} ->
            IF m.failures > 0 THEN <<120, 300>> ELSE <<30, 90>>
      [] OTHER                      ->
            IF m.failures = 0 THEN <<5, 15>>
            ELSE <<30 * m.failures, 60 * m.failures>>

(* the locals when save_checkpoint has returned *)
Saved(s, m, ok) ==
    [m EXCEPT !.save_ok = ok,
              !.prev_file = Missing,
              !.stop = IF AfterSave(s, m) = "exit" THEN "no_new" ELSE @,
              !.delay = IF AfterSave(s, m) = "delay" THEN DelayWindow(s, m)
                        ELSE <<0, 0>>]

(* save_checkpoint wraps the write in try/except *)
SaveSwallowsErrors(s) == IsDynamic(s)

(* what the Search Client may answer *)
Pages == SeqsUpTo(Ids, BATCH_SIZE)
CursorOrNone == Cursors \cup {None}

AnyResponse ==
    {Page(items, nc) : items \in Pages, nc \in CursorOrNone}
        \cup {RateLimited(t) : t \in ResetTimes} \cup {Error}

(* a deterministic Search Client: the answer is a function of the cursor *)
DetResponses == {Page(<<i>>, nc) : i \in Ids, nc \in CursorOrNone} \cup {Error}
DetClients == [CursorOrNone -> DetResponses]
AnyClient == [c \in CursorOrNone |-> Error]

(* the search modes a script rotates through *)
ModesOf(s) ==
    CASE s = "tweet1" -> products
      [] s = "tweet2" -> SEARCH_STRATEGIES
      [] OTHER        -> <<"Latest">>

(* the rotation client: one mode other than the first has tweets, pages of
   tweets not collected yet; every other mode has empty pages for ever *)
RotationClients(s) ==
    {[md \in Range(ModesOf(s)) |-> IF md = target THEN "new" ELSE "empty"] :
        target \in Range(ModesOf(s)) \ {Pairing(s, "Latest", 0, 0).mode}}

RotationResponses(md) ==
    IF md \notin DOMAIN client THEN {}
    ELSE IF client[md] = "empty" THEN {Page(<<>>, None)}
    ELSE {Page(<<i>>, nc) : i \in Ids \ mem.existing_ids, nc \in CursorOrNone}

(* the steady client: every call returns exactly k tweets it has not
   returned before and a next cursor it has not returned before, k a divisor
   of MAX_TWEETS that fits in a page *)
SteadyClients ==
    {[k |-> k] : k \in {d \in 1..Min(BATCH_SIZE, MAX_TWEETS) : MAX_TWEETS % d = 0}}

SteadyIds == 1..(MAX_TWEETS + BATCH_SIZE)

SteadyPages(k, seen) ==
    {items \in SeqsUpTo(SteadyIds \ seen, k) :
        Len(items) = k /\ Cardinality(Range(items)) = k}

SteadyResponses(m) ==
    {Page(items, m.fetches + 1) : items \in SteadyPages(client.k, m.existing_ids)}

SteadyNextResponses(m) == {Page(<<>>, MAX_TWEETS + m.fetches)}

(* the client of a day slice that runs dry: pages of at most one tweet, and
   enough different cursors for NoNewPagesLimit pages after a first one *)
DayCursors == 0..(NoNewPagesLimit + 1)
DayResponses ==
    {Page(items, nc) : items \in SeqsUpTo(Ids, 1), nc \in DayCursors}

(* the client of a paginated search: pages of at most one tweet from
   search_tweet, and from result.next() the page after the held one with its
   own tweet and its own next_cursor, or an error *)
AdvanceResponses ==
    {Page(items, nc) : items \in SeqsUpTo(Ids, 1), nc \in CursorOrNone}
AdvanceNextResponses ==
    {Page(<<i>>, nc) : i \in Ids, nc \in CursorOrNone} \cup {Error}

(* answers to search_tweet(query, product, count, cursor) *)
SearchResponses(cur) ==
    CASE phase = "free"   -> AnyResponse
      [] phase = "rot"    -> RotationResponses(mem.fetched_under.mode)
      [] phase = "steady" -> SteadyResponses(mem)
      [] phase = "two"    -> {r \in DetResponses : r.kind = "page"}
                                    \cup {Page(<<>>, None)}
      [] phase = "day"    -> DayResponses
      [] phase = "adv"    -> AdvanceResponses
      [] OTHER            -> {client[cur]}

(* answers to result.next(), which asks for the page at the held page's
   next_cursor: the page it returns (only its next_cursor is read), or Error *)
NextResponses(cur) ==
    CASE phase \in {"free", "rot", "two"} ->
            {Page(<<>>, nc) : nc \in CursorOrNone} \cup {Error}
      [] phase = "day"    -> {Page(<<>>, nc) : nc \in DayCursors} \cup {Error}
      [] phase = "adv"    -> AdvanceNextResponses
      [] phase = "steady" -> SteadyNextResponses(mem)
      [] OTHER            -> {client[cur]}

Running == {"loop", "search", "ratewait", "errwait", "next", "save", "saving",
            "delay", "exit"}
Stopped == {"idle", "killed", "done", "crashed"}

CleanWorld ==
    /\ script \in Scripts
    /\ query = 1
    /\ pc = "idle"
    /\ mem = InitMem
    /\ sinkStore = [f \in Files |-> <<>>]
    /\ refIds = {}
    /\ resume = NoResume

Init ==
    /\ CleanWorld
    /\ ckptStore = [f \in Files |-> Missing]
    /\ runs = 0
    /\ client = AnyClient
    /\ phase = "free"

(* any content of the checkpoint file when the (single) run starts *)
Restrict(d, keys) == [k \in keys |-> d[k]]
AnyCheckpointFile ==
    {Missing, Unparsable} \cup
    {Json(Restrict([count |-> c, cursor |-> cur, query_hash |-> h], keys), 1) :
        c \in 0..1, cur \in CursorOrNone, h \in Queries,
        keys \in SUBSET {"count", "cursor", "query_hash"}}

InitAnyCkpt ==
    /\ CleanWorld
    /\ \E file \in AnyCheckpointFile :
            ckptStore = [f \in Files |-> IF f = 1 THEN file ELSE Missing]
    /\ runs = MaxRuns - 1
    /\ client = AnyClient
    /\ phase = "free"

(* a reference run, never interrupted, against a deterministic client ... *)
InitResume ==
    /\ CleanWorld
    /\ ckptStore = [f \in Files |-> Missing]
    /\ runs = 0
    /\ client \in DetClients
    /\ phase = "ref"

(* run(): init_client succeeded; load the checkpoint, read the CSV, open it *)
Start(q) ==
    /\ pc \in Stopped
    /\ (phase # "free") => (pc \in {"idle", "killed"} /\ q = 1)
    /\ runs < MaxRuns
    /\ runs' = runs + 1
    /\ query' = q
    /\ LET f == FileOf(script, q)
           d == load_checkpoint(script, ckptStore[f], q)
       IN  IF StartupKeyError(script, d)
           THEN pc' = "crashed" /\ mem' = InitMem
           ELSE pc' = "loop" /\ mem' = StartMem(script, d, sinkStore[f])
    /\ UNCHANGED <<script, ckptStore, sinkStore, client, phase, refIds, resume>>

(* run(): init_client returned None, and run() returns *)
InitClientFails(q) ==
    /\ pc \in Stopped
    /\ phase = "free"
    /\ runs < MaxRuns
    /\ runs' = runs + 1
    /\ query' = q
    /\ pc' = "done"
    /\ \E got \in InitClientResults(script) :
            /\ ~got.client
            /\ mem' = [InitMem EXCEPT !.init_error = got.error,
                                      !.contacted = got.contacted]
    /\ UNCHANGED <<script, ckptStore, sinkStore, client, phase, refIds, resume>>

(* ---- the collection loop ---- *)
CurFile == FileOf(script, query)

(* the with-block is left: the CSV file object is closed, its buffer written *)
CloseSink(m) ==
    /\ sinkStore' = [sinkStore EXCEPT ![CurFile] = @ \o m.buf]
    /\ mem' = [m EXCEPT !.buf = <<>>]

(* against the rotation client: the mode changes between the request of this
   iteration and the next one, counted until a request is made under the
   mode that has tweets *)
Rotates(m) ==
    /\ phase = "rot"
    /\ ~m.reached
    /\ m.rotations <= Len(ModesOf(script))
    /\ Pairing(script, m.product, m.strategy_index, m.query_variations).mode
            # m.fetched_under.mode

(* the locals of step st, with the pairing the cursor came from: when the
   iteration's fetching is over, a cursor that is not None is one returned
   under the pairing of the iteration's request *)
Stamped(st) ==
    IF st.pc \in {"save", "exit"}
    THEN [st.m EXCEPT !.cursor_from = IF st.m.cursor = None THEN NoPairing
                                      ELSE st.m.fetched_under,
                      !.fetched_under = NoPairing,
                      !.current_query = NoQuery,
                      !.rotations = IF Rotates(st.m) THEN @ + 1 ELSE @]
    ELSE st.m

(* take the step st computed by OnResult / OnNext (f.flush() where it has one) *)
Take(st) ==
    /\ pc' = st.pc
    /\ IF st.flush
       THEN CloseSink(Stamped(st))
       ELSE mem' = Stamped(st) /\ UNCHANGED sinkStore

(* while-condition true: safe_search is called *)
LoopEnter ==
    /\ pc = "loop"
    /\ LoopCond(script, mem)
    /\ pc' = "search"
    /\ mem' = [mem EXCEPT !.attempt = 0, !.fetched = TRUE, !.errors = 0,
                          !.outcome = "none",
                          !.fetched_under = Pairing(script, mem.product,
                                                    mem.strategy_index,
                                                    mem.query_variations),
                          !.current_query =
                              IF script = "tweet2"
                              THEN generate_query_variations(query, mem.query_variations)
                              ELSE Unvaried(query),
                          !.reached =
                              @ \/ (/\ phase = "rot"
                                    /\ client[Pairing(script, mem.product,
                                                      mem.strategy_index,
                                                      mem.query_variations).mode] = "new")]
    /\ UNCHANGED <<script, query, ckptStore, sinkStore, runs, client, phase, refIds, resume>>

(* while-condition false *)
LoopExit ==
    /\ pc = "loop"
    /\ ~LoopCond(script, mem)
    /\ pc' = "exit"
    /\ UNCHANGED <<script, query, mem, ckptStore, sinkStore, runs, client, phase, refIds, resume>>

(* end of the with-block and of the run *)
Exit ==
    /\ pc = "exit"
    /\ pc' = "done"
    /\ CloseSink(mem)
    /\ UNCHANGED <<script, query, ckptStore, runs, client, phase, refIds, resume>>

(* against the steady client: one more search that returned a page *)
Fetched(m) == IF phase = "steady" THEN [m EXCEPT !.fetches = @ + 1] ELSE m

(* against the paginated client: the tweets of the pages the client has
   returned and the cursor has been moved past *)
Obtained(m, p, moved) ==
    IF phase = "adv" /\ p.kind = "page" /\ moved
    THEN [m EXCEPT !.obtained = @ \cup Range(p.items)]
    ELSE m

(* client.search_tweet returned a page *)
SearchReturns(r) ==
    /\ pc = "search"
    /\ r.kind = "page"
    /\ Take(OnResult(script, Obtained(Fetched(mem), r, TRUE), r))
    /\ resume' = NoResume
    /\ UNCHANGED <<script, query, ckptStore, runs, client, phase, refIds>>

(* client.search_tweet raised TooManyRequests: sleep until the reset *)
SearchRateLimited(r) ==
    /\ pc = "search"
    /\ r.kind = "ratelimited"
    /\ pc' = "ratewait"
    /\ mem' = [mem EXCEPT !.reset_time = r.reset,
                          !.wait = RateLimitWait(script, r.reset, Now, mem.attempt)]
    /\ resume' = NoResume
    /\ UNCHANGED <<script, query, ckptStore, sinkStore, runs, client, phase, refIds>>

(* a retry loop in which a rate limit does not use up an attempt *)
WakeAfterRateLimitUncounted ==
    /\ pc = "ratewait"
    /\ pc' = "search"
    /\ mem' = [mem EXCEPT !.wait = 0, !.reset_time = None]
    /\ UNCHANGED <<script, query, ckptStore, sinkStore, runs, client, phase,
                   refIds, resume>>

(* the rate-limit sleep is over: safe_search calls itself again (1k.tweet*.py),
   or the for-loop of safe_search_with_retry goes to its next attempt and
   returns None after the last one *)
WakeAfterRateLimit ==
    /\ pc = "ratewait"
    /\ LET woken == [mem EXCEPT !.wait = 0, !.reset_time = None]
       IN  IF ~IsDynamic(script)
           THEN pc' = "search" /\ mem' = woken /\ UNCHANGED sinkStore
           ELSE IF mem.attempt + 1 < MAX_RETRIES
                THEN /\ pc' = "search"
                     /\ mem' = [woken EXCEPT !.attempt = @ + 1]
                     /\ UNCHANGED sinkStore
                ELSE Take(OnResult(script, woken, NoPage))
    /\ UNCHANGED <<script, query, ckptStore, runs, client, phase, refIds, resume>>

(* client.search_tweet raised another exception *)
SearchError(r) ==
    /\ pc = "search"
    /\ r.kind = "error"
    /\ LET failed == IF IsDynamic(script) THEN [mem EXCEPT !.errors = @ + 1] ELSE mem
       IN  IF IsDynamic(script) /\ mem.attempt >= MAX_RETRIES - 1
           THEN Take(OnResult(script, failed, NoPage))
           ELSE /\ pc' = "errwait"
                /\ mem' = [failed EXCEPT !.wait = ErrorWait(script, mem.attempt)]
                /\ UNCHANGED sinkStore
    /\ resume' = NoResume
    /\ UNCHANGED <<script, query, ckptStore, runs, client, phase, refIds>>

(* the sleep after a search error is over *)
WakeAfterError ==
    /\ pc = "errwait"
    /\ LET woken == [mem EXCEPT !.wait = 0]
       IN  IF IsDynamic(script)
           THEN /\ pc' = "search"
                /\ mem' = [woken EXCEPT !.attempt = @ + 1]
                /\ UNCHANGED sinkStore
           ELSE Take(OnResult(script, woken, NoPage))
    /\ UNCHANGED <<script, query, ckptStore, runs, client, phase, refIds, resume>>

(* `await result.next()` returned or raised *)
NextReturns(n) ==
    /\ pc = "next"
    /\ Take(OnNext(script, Obtained(mem, n, n.kind = "page" /\ n.next_cursor # None), n))
    /\ UNCHANGED <<script, query, ckptStore, runs, client, phase, refIds, resume>>

(* save_checkpoint: open(CHECKPOINT_FILE, 'w') truncates the file;
   prev_file is what the file held until then *)
SaveCheckpointBegin ==
    /\ pc = "save"
    /\ pc' = "saving"
    /\ ckptStore' = [ckptStore EXCEPT ![CurFile] = Unparsable]
    /\ mem' = [mem EXCEPT !.prev_file = ckptStore[CurFile]]
    /\ UNCHANGED <<script, query, sinkStore, runs, client, phase, refIds, resume>>

(* save_checkpoint: json.dump wrote the dict and the file was closed *)
SaveCheckpointEnd ==
    /\ pc = "saving"
    /\ pc' = AfterSave(script, mem)
    /\ ckptStore' = [ckptStore EXCEPT ![CurFile] = Json(SavedData(script, mem, query), query)]
    /\ mem' = Saved(script, mem, TRUE)
    /\ UNCHANGED <<script, query, sinkStore, runs, client, phase, refIds, resume>>

(* save_checkpoint: the file could not be opened for writing *)
SaveCheckpointFails ==
    /\ pc = "save"
    /\ phase = "free"
    /\ IF SaveSwallowsErrors(script)
       THEN /\ pc' = AfterSave(script, mem)
            /\ mem' = Saved(script, mem, FALSE)
            /\ UNCHANGED sinkStore
       ELSE /\ pc' = "crashed"
            /\ CloseSink([mem EXCEPT !.save_ok = FALSE])
    /\ UNCHANGED <<script, query, ckptStore, runs, client, phase, refIds, resume>>

(* asyncio.sleep(delay) is over *)
Wake ==
    /\ pc = "delay"
    /\ pc' = "loop"
    /\ mem' = [mem EXCEPT !.delay = <<0, 0>>]
    /\ UNCHANGED <<script, query, ckptStore, sinkStore, runs, client, phase, refIds, resume>>

(* the process is killed: the locals are lost, and of the rows in the write
   buffer any leading part may have reached the file (the buffer is written
   out when it fills up, which the header row alone never does) *)
Kill(k) ==
    /\ pc \in Running
    /\ (phase # "free") => (phase = "test" /\ pc = "delay")
    /\ k \in 0..Len(mem.buf)
    /\ (k > 0) => (\E i \in 1..Len(mem.buf) : mem.buf[i] # HDR)
    /\ pc' = "killed"
    /\ sinkStore' = [sinkStore EXCEPT ![CurFile] = @ \o SubSeq(mem.buf, 1, k)]
    /\ mem' = InitMem
    /\ resume' = IF pc = "delay" /\ mem.save_ok
                 THEN [valid |-> TRUE, query |-> query, count |-> mem.count,
                       cursor |-> mem.cursor, product |-> mem.product,
                       strategy_index |-> mem.strategy_index,
                       query_variations |-> mem.query_variations,
                       failures |-> mem.failures]
                 ELSE NoResume
    /\ UNCHANGED <<script, query, ckptStore, runs, client, phase, refIds>>

Next ==
    \/ \E q \in Queries : Start(q)
    \/ \E q \in Queries : InitClientFails(q)
    \/ LoopEnter
    \/ LoopExit
    \/ Exit
    \/ \E r \in SearchResponses(mem.cursor) : SearchReturns(r)
    \/ \E r \in SearchResponses(mem.cursor) : SearchRateLimited(r)
    \/ WakeAfterRateLimit
    \/ \E r \in SearchResponses(mem.cursor) : SearchError(r)
    \/ WakeAfterError
    \/ \E n \in NextResponses(mem.result_cursor) : NextReturns(n)
    \/ SaveCheckpointBegin
    \/ SaveCheckpointEnd
    \/ SaveCheckpointFails
    \/ Wake
    \/ \E k \in 0..MaxBuf : Kill(k)

Spec == Init /\ [][Next]_vars

SpecAnyCkpt == InitAnyCkpt /\ [][Next]_vars

RecordRows(rows) == SelectSeq(rows, LAMBDA x : x # HDR)
RecordIds(rows) == Range(RecordRows(rows))

(* ... whose final record ids are kept, after which the same client is run
   against from the same empty files, now with kills during the delay *)
ResetWorld ==
    /\ phase = "ref"
    /\ pc = "done"
    /\ phase' = "test"
    /\ refIds' = RecordIds(sinkStore[CurFile])
    /\ pc' = "idle"
    /\ mem' = InitMem
    /\ runs' = 0
    /\ ckptStore' = [f \in Files |-> Missing]
    /\ sinkStore' = [f \in Files |-> <<>>]
    /\ UNCHANGED <<script, query, client, resume>>

NextResume ==
    \/ \E q \in Queries : Start(q)
    \/ LoopEnter
    \/ LoopExit
    \/ Exit
    \/ \E r \in SearchResponses(mem.cursor) : SearchReturns(r)
    \/ \E r \in SearchResponses(mem.cursor) : SearchError(r)
    \/ WakeAfterError
    \/ \E n \in NextResponses(mem.result_cursor) : NextReturns(n)
    \/ SaveCheckpointBegin
    \/ SaveCheckpointEnd
    \/ Wake
    \/ \E k \in 0..MaxBuf : Kill(k)
    \/ ResetWorld

SpecResume == InitResume /\ [][NextResume]_vars

(* one uninterrupted run of a rotating script from no files, against a
   rotation client *)
InitRotation ==
    /\ CleanWorld
    /\ script \in {"tweet1", "tweet2"}
    /\ ckptStore = [f \in Files |-> Missing]
    /\ runs = MaxRuns - 1
    /\ client \in RotationClients(script)
    /\ phase = "rot"

NextRotation ==
    \/ \E q \in Queries : Start(q)
    \/ LoopEnter
    \/ LoopExit
    \/ Exit
    \/ \E r \in SearchResponses(mem.cursor) : SearchReturns(r)
    \/ \E n \in NextResponses(mem.result_cursor) : NextReturns(n)
    \/ SaveCheckpointBegin
    \/ SaveCheckpointEnd
    \/ Wake

(* the run is scheduled: a step that can be taken is taken *)
SpecRotation == InitRotation /\ [][NextRotation]_vars /\ WF_vars(NextRotation)

(* one uninterrupted run of any script from no files, against a steady
   client *)
InitSteady ==
    /\ CleanWorld
    /\ ckptStore = [f \in Files |-> Missing]
    /\ runs = MaxRuns - 1
    /\ client \in SteadyClients
    /\ phase = "steady"

SpecSteady == InitSteady /\ [][NextRotation]_vars /\ WF_vars(NextRotation)

(* one uninterrupted run of Dynamic_scrapping/init.py from no files *)
InitDay ==
    /\ CleanWorld
    /\ script = "dynInit"
    /\ ckptStore = [f \in Files |-> Missing]
    /\ runs = MaxRuns - 1
    /\ client = AnyClient
    /\ phase = "day"

SpecDay == InitDay /\ [][NextRotation]_vars

(* one uninterrupted run of Dynamic_scrapping/init.py from no files, the
   client free to answer each call with any outcome *)
InitLoop ==
    /\ CleanWorld
    /\ script = "dynInit"
    /\ ckptStore = [f \in Files |-> Missing]
    /\ runs = MaxRuns - 1
    /\ client = AnyClient
    /\ phase = "free"

NextLoop ==
    \/ \E q \in Queries : Start(q)
    \/ LoopEnter
    \/ LoopExit
    \/ Exit
    \/ \E r \in SearchResponses(mem.cursor) : SearchReturns(r)
    \/ \E r \in SearchResponses(mem.cursor) : SearchRateLimited(r)
    \/ WakeAfterRateLimit
    \/ \E r \in SearchResponses(mem.cursor) : SearchError(r)
    \/ WakeAfterError
    \/ \E n \in NextResponses(mem.result_cursor) : NextReturns(n)
    \/ SaveCheckpointBegin
    \/ SaveCheckpointEnd
    \/ SaveCheckpointFails
    \/ Wake

(* every call returns or raises and every sleep ends *)
SpecLoop == InitLoop /\ [][NextLoop]_vars /\ WF_vars(NextLoop)

(* one uninterrupted run of any script from no files, against a paginated
   client *)
InitAdvance ==
    /\ CleanWorld
    /\ ckptStore = [f \in Files |-> Missing]
    /\ runs = MaxRuns - 1
    /\ client = AnyClient
    /\ phase = "adv"

SpecAdvance == InitAdvance /\ [][NextRotation]_vars

----------------------------------------------------------------------------
(* main2.py: one search, printed and written to tweets_2.csv.  Its locals
   are kept in mem: config, cookies, login_ok (what main() finds), client
   ("unset", "none", "ok"), tweets (bound or not, and the list), searched,
   file0 (tweets_2.csv before the run), raised *)
TweetsFile == 1

Unbound == [bound |-> FALSE, items |-> <<>>]
Bound(items) == [bound |-> TRUE, items |-> items]

(* main(): cookies first, then config.ini, then login *)
main(config, cookies, login_ok) == init_client("main2", config, cookies, login_ok)

(* search_tweets(client, query, count): the tweets, [] when the call raised *)
search_tweets(r) == IF r.kind = "page" THEN r.items ELSE <<>>

InitMain2 ==
    /\ script = "main2"
    /\ query = 1
    /\ pc = "idle"
    /\ \E config \in Configs, cookies \in CookieFiles, login_ok \in BOOLEAN,
          old \in {<<>>, <<HDR, 1>>} :
            /\ mem = [config |-> config, cookies |-> cookies, login_ok |-> login_ok,
                      client |-> "unset", tweets |-> Unbound, searched |-> FALSE,
                      file0 |-> old, raised |-> "none"]
            /\ sinkStore = [f \in Files |-> IF f = TweetsFile THEN old ELSE <<>>]
    /\ ckptStore = [f \in Files |-> Missing]
    /\ runs = 0
    /\ client = AnyClient
    /\ phase = "main2"
    /\ refIds = {}
    /\ resume = NoResume

(* run_all_operations(): `client = await main()` returned *)
Main2Main ==
    /\ pc = "idle"
    /\ LET got == main(mem.config, mem.cookies, mem.login_ok)
       IN  /\ pc' = IF got.client THEN "search" ELSE "write"
           /\ mem' = [mem EXCEPT !.client = IF got.client THEN "ok" ELSE "none"]
    /\ UNCHANGED <<script, query, ckptStore, sinkStore, runs, client, phase,
                   refIds, resume>>

(* `tweets = await search_tweets(client, QUERY, MINIMUM_TWEETS)` returned,
   and the tweets were printed *)
Main2SearchReturns(r) ==
    /\ pc = "search"
    /\ pc' = "write"
    /\ mem' = [mem EXCEPT !.tweets = Bound(search_tweets(r)), !.searched = TRUE]
    /\ UNCHANGED <<script, query, ckptStore, sinkStore, runs, client, phase,
                   refIds, resume>>

(* `if tweets:` after the `if client:` block, and the writing of tweets_2.csv;
   reading a local that was never assigned raises UnboundLocalError *)
Main2Write ==
    /\ pc = "write"
    /\ IF ~mem.tweets.bound
       THEN /\ pc' = "crashed"
            /\ mem' = [mem EXCEPT !.raised = "UnboundLocalError"]
            /\ UNCHANGED sinkStore
       ELSE /\ pc' = "done"
            /\ mem' = mem
            /\ IF mem.tweets.items # <<>>
               THEN sinkStore' = [sinkStore EXCEPT
                                    ![TweetsFile] = <<HDR>> \o mem.tweets.items]
               ELSE UNCHANGED sinkStore
    /\ UNCHANGED <<script, query, ckptStore, runs, client, phase, refIds, resume>>

NextMain2 ==
    \/ Main2Main
    \/ \E r \in AnyResponse : Main2SearchReturns(r)
    \/ Main2Write

SpecMain2 == InitMain2 /\ [][NextMain2]_vars

(* a lock held for the length of a run: the other instance waits *)
MayRunBesideLocked(other_pc) == other_pc \notin Running

(* the scripts take no lock and look for no other instance: an instance is
   scheduled whatever the other one is doing *)
MayRunBeside(other_pc) == TRUE

(* two instances of one account-keyed script, same account and query, same checkpoint
   file and CSV, each with its own locals and its own CSV file object; pc
   and mem are those of the instance being stepped, client holds the other *)
InitTwo ==
    /\ CleanWorld
    /\ IsDynamic(script)
    /\ ckptStore = [f \in Files |-> Missing]
    /\ runs = MaxRuns - 2
    /\ client = [pc |-> "idle", mem |-> InitMem]
    /\ phase = "two"

(* the operating system runs the other instance *)
Switch ==
    /\ phase = "two"
    /\ MayRunBeside(pc)
    /\ pc' = client.pc
    /\ mem' = client.mem
    /\ client' = [pc |-> pc, mem |-> mem]
    /\ UNCHANGED <<script, query, ckptStore, sinkStore, runs, phase, refIds, resume>>

NextTwo ==
    \/ \E q \in Queries : Start(q)
    \/ LoopEnter
    \/ LoopExit
    \/ Exit
    \/ \E r \in SearchResponses(mem.cursor) : SearchReturns(r)
    \/ \E n \in NextResponses(mem.result_cursor) : NextReturns(n)
    \/ SaveCheckpointBegin
    \/ SaveCheckpointEnd
    \/ Wake
    \/ Switch

SpecTwo == InitTwo /\ [][NextTwo]_vars

----------------------------------------------------------------------------
NoDuplicate(rows) == \A i, j \in 1..Len(rows) : i # j => rows[i] # rows[j]

(* C1: the output sink never contains two record rows with the same id *)
C1_NoDuplicateRows ==
    \A f \in Files : NoDuplicate(RecordRows(sinkStore[f]))

(* C2: while a run is going, the dedup index is the set of ids of the record
   rows of the sink (the rows in the file and those written to it) *)
C2_IndexEqualsSink ==
    pc \in Running => mem.existing_ids = RecordIds(sinkStore[CurFile] \o mem.buf)

(* C3: a run that finds a checkpoint saved under another identity starts
   from count 0 and cursor None *)
C3_IdentityIsolation ==
    (/\ pc = "loop"
     /\ ~mem.fetched
     /\ ckptStore[CurFile].kind = "json"
     /\ ckptStore[CurFile].owner # query)
        => (mem.count = 0 /\ mem.cursor = None)

(* C4: a run killed after N completed iterations and restarted ends with
   the record ids of the uninterrupted run against the same client *)
C4_SameFinalIds ==
    (phase = "test" /\ pc = "done") => RecordIds(sinkStore[CurFile]) = refIds

(* C5: after a kill, the persisted checkpoint count is not ahead of the
   record rows that are in the sink *)
C5_CheckpointNotAhead ==
    pc = "killed" =>
        \A f \in Files :
            ckptStore[f].kind = "json" =>
                Get(ckptStore[f].data, "count", 0) <= Len(RecordRows(sinkStore[f]))

(* C6: when a run that issued a fetch ends, the persisted count and cursor
   are the loop's count and cursor *)
C6_EndsPersisted ==
    (pc = "done" /\ mem.fetched) =>
        /\ ckptStore[CurFile].kind = "json"
        /\ Get(ckptStore[CurFile].data, "count", 0) = mem.count
        /\ Get(ckptStore[CurFile].data, "cursor", None) = mem.cursor

ResumesCountAndCursor ==
    /\ mem.count = resume.count
    /\ mem.cursor = resume.cursor
    /\ mem.product = resume.product
    /\ mem.strategy_index = resume.strategy_index
    /\ mem.query_variations = resume.query_variations

AtFirstFetchAfterKillInDelay ==
    pc = "search" /\ resume.valid /\ resume.query = query

(* C7 (as stated): the first fetch after a kill in the delay is issued with
   the count, cursor, strategy index, variant index and failure count the
   killed run would have used *)
C7_ResumesExactState ==
    AtFirstFetchAfterKillInDelay =>
        (ResumesCountAndCursor /\ mem.failures = resume.failures)

(* C7 (amended): ... with the same count, cursor, strategy index and variant
   index; the failure count is the killed run's in 1k.tweet_2.py, which
   persists it, and 0 in the other scripts *)
C7_ResumesPersistedState ==
    AtFirstFetchAfterKillInDelay =>
        /\ ResumesCountAndCursor
        /\ mem.failures = IF script = "tweet2" THEN resume.failures ELSE 0

(* a restart after a kill in the delay reaches its first fetch, the killed
   run having collected rows, moved its cursor and counted a failure *)
C7_Witness ==
    /\ AtFirstFetchAfterKillInDelay
    /\ resume.count > 0
    /\ resume.cursor # None
    /\ resume.failures > 0

(* C8: start-up never fails, whatever the checkpoint file holds *)
C8_StartupNeverFails ==
    [][(\E q \in Queries : Start(q)) => pc' = "loop"]_vars

(* C9: a failed checkpoint write does not stop the collection loop *)
C9_SaveFailureNotFatal ==
    [][SaveCheckpointFails => pc' # "crashed"]_vars

(* C10: a rate-limit response never increments the failure counter *)
C10_RateLimitNotFailure ==
    [][WakeAfterRateLimit => mem'.failures = mem.failures]_vars

(* C11: while a run sleeps after a rate-limit answer that carried a reset
   time R, the sleep is max(R - now, 0) + margin (margin 10 in the 1k.tweet
   scripts, 5 in the Dynamic ones): between 500 and 500 + margin for
   R = now + 500, the margin alone for R in the past *)
C11_RateLimitWaitFromReset ==
    (pc = "ratewait" /\ mem.reset_time # None) =>
        /\ mem.wait = Max(mem.reset_time - Now, 0) + Margin(script)
        /\ (mem.reset_time = Now + 500 =>
                (500 <= mem.wait /\ mem.wait <= 500 + Margin(script)))
        /\ (mem.reset_time <= Now => mem.wait = Margin(script))

(* a run sleeps after a rate-limit answer whose reset time is in the past *)
C11_Witness ==
    pc = "ratewait" /\ mem.reset_time # None /\ mem.reset_time < Now
        /\ mem.wait = Margin(script)

(* the windows the delay between two fetches is drawn from *)
FastWindow(s) == IF IsDynamic(s) THEN <<5, 15>> ELSE <<30, 90>>
SlowWindow(s) == IF IsDynamic(s) THEN <<30, 60>> ELSE <<120, 300>>
Within(w, outer) == outer[1] <= w[1] /\ w[2] <= outer[2]

(* C12: in the delay after an iteration that recorded at least one new item
   the failure counter is zero and the delay is drawn from the fast window
   (1k.tweet.py has neither a counter nor windows) *)
C12_SuccessResetsAndFast ==
    (pc = "delay" /\ mem.outcome = "new" /\ script # "tweet1") =>
        (mem.failures = 0 /\ Within(mem.delay, FastWindow(script)))

(* C13: an iteration whose page is empty, or holds only ids already in the
   dedup index, adds exactly one to the failure streak *)
C13_EmptyOrStaleCountsFailure ==
    [][(script # "tweet1" /\ mem.outcome = "none"
            /\ mem'.outcome \in {"empty", "stale"})
        => mem'.failures = mem.failures + 1]_vars

(* C14 (as stated): the delay after an iteration that got an empty page is
   within the fixed slow window, whatever the failure count *)
C14_EmptyPageSlowWindow ==
    (pc = "delay" /\ mem.outcome = "empty" /\ script # "tweet1") =>
        Within(mem.delay, SlowWindow(script))

(* C14 (amended): ... is within the slow window in 1k.tweet_2.py and
   1k.tweet_3.py, and within the slow window multiplied by the failure
   count, which is at least 1, in the Dynamic scripts *)
C14_EmptyPageSlowWindowScaled ==
    (pc = "delay" /\ mem.outcome = "empty" /\ script # "tweet1") =>
        /\ mem.failures >= 1
        /\ Within(mem.delay,
                  IF IsDynamic(script)
                  THEN <<SlowWindow(script)[1] * mem.failures,
                         SlowWindow(script)[2] * mem.failures>>
                  ELSE SlowWindow(script))

(* a Dynamic script sleeps after its second empty page in a row *)
C14_Witness ==
    pc = "delay" /\ mem.outcome = "empty" /\ IsDynamic(script) /\ mem.failures = 2
        /\ mem.delay = <<60, 120>>

(* C15: in safe_search_with_retry, when every attempt so far raised an error
   other than a rate limit and this one does too, the first attempt is
   followed by a sleep of 5 and the second by one of 15, the counter of the
   loop untouched; the third is the last: None is returned and the loop adds
   exactly one to its failure counter *)
C15_ThreeAttemptsThenOneFailure ==
    [][(IsDynamic(script) /\ pc = "search" /\ mem.errors = mem.attempt
            /\ mem'.errors = mem.errors + 1)
        => CASE mem.attempt = 0 -> /\ pc' = "errwait"
                                   /\ mem'.wait = 5
                                   /\ mem'.failures = mem.failures
             [] mem.attempt = 1 -> /\ pc' = "errwait"
                                   /\ mem'.wait = 15
                                   /\ mem'.failures = mem.failures
             [] OTHER           -> /\ mem.attempt = 2
                                   /\ mem'.outcome = "noresult"
                                   /\ mem'.failures = mem.failures + 1]_vars

(* a Dynamic script whose search failed three times in a row goes on to save
   its checkpoint with one more failure counted *)
C15_Witness ==
    /\ IsDynamic(script)
    /\ pc = "save"
    /\ mem.errors = 3
    /\ mem.attempt = 2
    /\ mem.outcome = "noresult"
    /\ mem.failures >= 1

(* C16: in 1k.tweet_2.py an iteration that ends with no new item (no result
   after a search error, an empty page, or a page of known ids) moves
   strategy_index and query_variations one step round and nulls the cursor *)
C16_FailureRotatesAndClears ==
    [][(script = "tweet2" /\ mem.outcome = "none"
            /\ mem'.outcome \in {"noresult", "empty", "stale"})
        => /\ mem'.strategy_index = (mem.strategy_index + 1) % Len(SEARCH_STRATEGIES)
           /\ mem'.query_variations = (mem.query_variations + 1) % 8
           /\ mem'.cursor = None]_vars

(* 1k.tweet_2.py after its eighth failed iteration in a row: the variation
   index is back at 0 *)
C16_Witness ==
    /\ script = "tweet2"
    /\ pc = "save"
    /\ mem.outcome \in {"noresult", "empty", "stale"}
    /\ mem.failures = 8
    /\ mem.query_variations = 0
    /\ mem.strategy_index = 0
    /\ mem.cursor = None

(* C17 (as stated): in 1k.tweet_2.py the steps of an iteration that recorded
   a new item set query_variations to 0 and last_successful_strategy to the
   strategy of the fetch, and leave strategy_index as it was *)
C17_SuccessKeepsStrategy ==
    [][(script = "tweet2" /\ pc \in {"search", "next"} /\ mem'.outcome = "new")
        => /\ mem'.query_variations = 0
           /\ mem'.last_successful_strategy =
                 (IF pc = "search" THEN mem.strategy_index
                  ELSE mem.last_successful_strategy)
           /\ mem'.strategy_index = mem.strategy_index]_vars

(* C17 (amended): ... and leave strategy_index as it was when the iteration
   ends with a next cursor; when neither the page nor result.next() gave
   one, the cursor is null and strategy_index has moved one step round *)
C17_SuccessKeepsStrategyWhilePaging ==
    [][(script = "tweet2" /\ pc \in {"search", "next"} /\ mem'.outcome = "new")
        => /\ mem'.query_variations = 0
           /\ mem'.last_successful_strategy =
                 (IF pc = "search" THEN mem.strategy_index
                  ELSE mem.last_successful_strategy)
           /\ (pc' = "save" /\ mem'.cursor = None)
                 => mem'.strategy_index =
                        (mem.strategy_index + 1) % Len(SEARCH_STRATEGIES)
           /\ ~(pc' = "save" /\ mem'.cursor = None)
                 => mem'.strategy_index = mem.strategy_index]_vars

(* 1k.tweet_2.py recorded a new item under strategy 1 with variation 1, got
   no next cursor, and is about to save strategy 0 and variation 0 *)
C17_Witness ==
    /\ script = "tweet2"
    /\ pc = "save"
    /\ mem.outcome = "new"
    /\ mem.last_successful_strategy = 1
    /\ mem.strategy_index = 0
    /\ mem.query_variations = 0
    /\ mem.cursor = None

(* C18: every search request carries a cursor that is null or was returned
   under the (search mode, query variant) pairing of the request *)
C18_CursorOfSamePairing ==
    pc = "search" =>
        (mem.cursor = None \/ mem.cursor_from = mem.fetched_under)

(* C19: in 1k.tweet_2.py started from the default checkpoint, strategy_index
   is always an index of SEARCH_STRATEGIES and query_variations lies in
   0..7; the query of every request is variant query_variations of QUERY,
   and generate_query_variations picks variant i mod 8 for every i *)
C19_IndicesInRange ==
    script = "tweet2" =>
        /\ 0 <= mem.strategy_index /\ mem.strategy_index < Len(SEARCH_STRATEGIES)
        /\ 0 <= mem.query_variations /\ mem.query_variations < 8
        /\ pc = "search" =>
                mem.current_query =
                    [base |-> query, edit |-> variations[mem.query_variations + 1]]
        /\ \A i \in 0..(2 * NumVariations + 1) :
                generate_query_variations(query, i) =
                    [base |-> query, edit |-> variations[(i % 8) + 1]]

(* 1k.tweet_2.py issues a request with the last variant under strategy 1 *)
C19_Witness ==
    /\ script = "tweet2"
    /\ pc = "search"
    /\ mem.query_variations = 7
    /\ mem.strategy_index = 1
    /\ mem.current_query = [base |-> query, edit |-> "since_90_days"]

(* C20: against the rotation client a run that starts under the first mode
   comes to issue a request under the mode that has tweets, and has rotated
   at most len(modes) times before it does (2 strategies in 1k.tweet_2.py,
   3 products in 1k.tweet.py) *)
C20_ReachesModeWithTweets ==
    /\ [](phase = "rot" => mem.rotations <= Len(ModesOf(script)))
    /\ <>(phase = "rot" /\ pc = "search" /\ mem.reached
            /\ client[mem.fetched_under.mode] = "new")

(* 1k.tweet.py asks for product 'Top', the one with tweets, after 'Latest'
   and 'Media' gave empty pages *)
C20_Witness ==
    /\ phase = "rot"
    /\ script = "tweet1"
    /\ pc = "search"
    /\ mem.fetched_under.mode = "Top"
    /\ client["Top"] = "new"
    /\ mem.rotations = 2

(* C21: from an empty checkpoint and sink, against a client that returns
   exactly k new items and a fresh next cursor on every call, k a divisor of
   MAX_TWEETS, the run ends, and it ends after exactly MAX_TWEETS / k
   searches with the collected count equal to MAX_TWEETS *)
C21_TerminatesAfterExactFetches ==
    /\ [](phase = "steady" => mem.fetches <= MAX_TWEETS \div client.k)
    /\ []((phase = "steady" /\ pc = "done") =>
            (mem.fetches = MAX_TWEETS \div client.k /\ mem.count = MAX_TWEETS))
    /\ <>(phase = "steady" /\ pc = "done")

(* a run against the client with k = 1 has ended having collected
   MAX_TWEETS rows in MAX_TWEETS searches *)
C21_Witness ==
    /\ phase = "steady"
    /\ pc = "done"
    /\ client.k = 1
    /\ mem.fetches = MAX_TWEETS
    /\ mem.count = MAX_TWEETS
    /\ Len(RecordRows(sinkStore[CurFile])) = MAX_TWEETS

(* C22: in Dynamic_scrapping/init.py, when a fetch of this run gave the
   cursor the loop holds and the next fetch (the page itself, or
   result.next() on it) gives that cursor again, the loop is left at once
   through the 'Cursor repeated' break, and nothing but the end of the run
   follows: no further fetch is issued *)
C22_RepeatedCursorStops ==
    [][/\ (/\ script = "dynInit"
           /\ mem.cursor \in mem.seen_cursors
           /\ \/ \E r \in AnyResponse :
                    /\ r.kind = "page" /\ r.items # <<>>
                    /\ r.next_cursor = mem.cursor
                    /\ SearchReturns(r)
              \/ \E n \in NextResponses(mem.result_cursor) :
                    /\ n.kind = "page"
                    /\ n.next_cursor = mem.cursor
                    /\ NextReturns(n))
            => (pc' = "exit" /\ mem'.stop = "repeated")
       /\ (script = "dynInit" /\ pc = "exit") => pc' \in {"done", "killed"}]_vars

(* Dynamic_scrapping/init.py has left its loop on a repeated cursor *)
C22_Witness ==
    /\ script = "dynInit"
    /\ pc = "exit"
    /\ mem.stop = "repeated"
    /\ mem.cursor \in mem.seen_cursors

(* C23: when a search returned a page with tweets (in 1k.tweet_2.py: with a
   tweet that is new) and the page carries a next_cursor, that value becomes
   the loop's cursor and result.next() is not called; result.next() is
   only ever called on a page without a next_cursor *)
C23_PageCursorPreferred ==
    [][/\ \A r \in AnyResponse :
            (/\ SearchReturns(r)
             /\ r.items # <<>>
             /\ r.next_cursor # None
             /\ (script = "tweet2" => mem'.outcome = "new"))
                => (pc' # "next" /\ mem'.cursor = r.next_cursor)
       /\ (pc' = "next") => (mem'.result_cursor = None)]_vars

(* C24: after a successful fetch whose page has no next_cursor, the step the
   loop takes when result.next() raised is not the step it takes when
   result.next() returned a page without a next_cursor: an error does not
   have the outcome of 'no more pages' *)
C24_ErrorIsNotNoMorePages ==
    [][NextReturns(Error) => ~NextReturns(Page(<<>>, None))]_vars

(* C25: while a request is with the search service, a search or a
   result.next(), the collected count is below MAX_TWEETS and the failure
   counter below its cap: the while-condition of the loop holds *)
C25_NoRequestPastTheCaps ==
    pc \in {"search", "next"} => LoopCond(script, mem)

(* init_client of the Dynamic scripts on a bad config.ini *)
BadConfigGivesNone ==
    \A s \in {"dynX", "dynInit"}, config \in Configs \ {"ok"},
       cookies \in CookieFiles, login_ok \in BOOLEAN :
            /\ ~init_client(s, config, cookies, login_ok).client
            /\ ~init_client(s, config, cookies, login_ok).contacted

(* C26: in Dynamic_scrapping_X.py and Dynamic_scrapping/init.py, when the
   account is not in config.ini or one of username, email, password is
   missing, init_client returns None whatever the cookies file holds and
   without a request to the remote service, and the run that got None ends
   at once with the checkpoint and the CSV as they were *)
C26_BadConfigEndsUntouched ==
    [][/\ BadConfigGivesNone
       /\ (/\ IsDynamic(script)
           /\ pc \in Stopped
           /\ pc' = "done"
           /\ mem'.init_error \in Configs \ {"ok"}
           /\ \E q \in Queries : InitClientFails(q))
            => /\ ~mem'.contacted
               /\ pc' = "done"
               /\ ckptStore' = ckptStore
               /\ sinkStore' = sinkStore]_vars

(* a run of a Dynamic script ended on an unknown account, after an earlier
   run had written a checkpoint and rows, which are still there *)
C26_Witness ==
    /\ IsDynamic(script)
    /\ pc = "done"
    /\ mem.init_error = "unknown_account"
    /\ ~mem.contacted
    /\ ckptStore[1].kind = "json"
    /\ RecordRows(sinkStore[1]) # <<>>

(* C27: a run writes the header row exactly when the CSV is empty at its
   start, and a CSV that holds rows holds exactly one header row, its first
   row, after any sequence of runs, kills and restarts *)
C27_OneHeaderRowFirst ==
    /\ (pc = "loop" /\ ~mem.fetched) =>
            ((mem.buf = <<HDR>>) <=> (sinkStore[CurFile] = <<>>))
    /\ \A f \in Files :
            sinkStore[f] # <<>> =>
                /\ sinkStore[f][1] = HDR
                /\ \A i \in 2..Len(sinkStore[f]) : sinkStore[f][i] # HDR

(* C28: the head of the loop, where the next search is issued, is reached
   only from start-up or from the end of the delay, and the delay only from
   save_checkpoint: between two searches of the loop there is a checkpoint
   save and then a delay, whatever the iteration got *)
C28_SaveThenDelayBetweenFetches ==
    [][/\ (pc' = "loop" /\ pc # "loop") => (pc = "delay" \/ pc \in Stopped)
       /\ (pc' = "delay" /\ pc # "delay") => pc \in {"save", "saving"}]_vars

(* C29: when a run is killed inside save_checkpoint, what the next
   load_checkpoint returns is what it would have returned before the save
   began, or the checkpoint that was being saved *)
C29_KillInSaveKeepsACheckpoint ==
    [][(pc = "saving" /\ pc' = "killed") =>
        LET loaded == load_checkpoint(script, ckptStore'[CurFile], query)
        IN  \/ loaded = load_checkpoint(script, mem.prev_file, query)
            \/ loaded = SavedData(script, mem, query)]_vars

(* C30: with two instances on the same checkpoint and CSV nothing holds the
   second one back: whatever the first is doing the other can be scheduled,
   an instance that has not started can start, and an instance that leaves
   its with-block appends every row of its buffer to the CSV *)
C30_SecondInstanceUnhindered ==
    /\ [](phase = "two" => ENABLED Switch)
    /\ []((phase = "two" /\ pc = "idle") => ENABLED Start(1))
    /\ [][(phase = "two" /\ Exit)
            => sinkStore'[CurFile] = sinkStore[CurFile] \o mem.buf]_vars

(* both instances of Dynamic_scrapping_X.py are in their loops and the CSV
   holds two record rows with the same id *)
C30_Witness ==
    /\ phase = "two"
    /\ script = "dynX"
    /\ pc \in Running
    /\ client.pc \in Running
    /\ ~NoDuplicate(RecordRows(sinkStore[CurFile]))

(* C31: in Dynamic_scrapping/init.py an iteration whose search returned
   nothing or an empty page adds one to the failure counter and leaves the
   cursor, the count, the dedup index, the rows written and the CSV as they
   were; nothing between that and the next search moves the cursor, so the
   next search asks for the same cursor *)
C31_FailedIterationKeepsPlace ==
    [][/\ (/\ script = "dynInit"
           /\ mem.outcome = "none"
           /\ mem'.outcome \in {"noresult", "empty"})
            => /\ mem'.failures = mem.failures + 1
               /\ mem'.cursor = mem.cursor
               /\ mem'.count = mem.count
               /\ mem'.existing_ids = mem.existing_ids
               /\ mem'.buf = mem.buf
               /\ mem'.no_new_pages = mem.no_new_pages
               /\ mem'.seen_cursors = mem.seen_cursors
               /\ sinkStore' = sinkStore
               /\ pc' = "save"
       /\ (/\ script = "dynInit"
           /\ pc \in {"save", "saving", "delay", "loop"}
           /\ pc' \in Running)
            => mem'.cursor = mem.cursor]_vars

(* Dynamic_scrapping/init.py asks again for the cursor a page of this run
   gave it, after an iteration that failed *)
C31_Witness ==
    /\ script = "dynInit"
    /\ pc = "search"
    /\ mem.failures = 1
    /\ mem.cursor # None
    /\ mem.cursor \in mem.seen_cursors
    /\ mem.count > 0

(* C32: in Dynamic_scrapping/init.py a non-empty page that adds no new id
   adds one to no_new_pages, a page that adds one sets it to 0, an iteration
   without tweets leaves it; the run stops for lack of new items exactly
   when the count is 3 at the end of an iteration's save_checkpoint, so no
   search is issued with the count at 3 and the stop is followed by the end
   of the run alone *)
C32_ThreeStalePagesStop ==
    /\ [][/\ (mem.outcome = "none" /\ mem'.outcome = "stale")
               => (mem'.no_new_pages = mem.no_new_pages + 1)
          /\ (mem.outcome = "none" /\ mem'.outcome = "new")
               => (mem'.no_new_pages = 0)
          /\ (mem.outcome = "none" /\ mem'.outcome \in {"noresult", "empty"})
               => (mem'.no_new_pages = mem.no_new_pages)
          /\ (pc = "saving" /\ pc' # "saving")
               => /\ ((pc' = "exit") <=> (mem.no_new_pages >= 3))
                  /\ ((mem'.stop = "no_new") <=> (mem.no_new_pages >= 3))
                  /\ ckptStore'[CurFile] = Json(SavedData(script, mem, query), query)
          /\ ((pc = "exit") => (pc' = "done"))]_vars
    /\ []((pc = "search") => (mem.no_new_pages < 3))
    /\ []((mem.stop = "no_new") => (mem.no_new_pages = 3 /\ pc \in {"exit", "done"}))

(* Dynamic_scrapping/init.py has left its loop after three pages in a row
   without a new id, its checkpoint saved *)
C32_Witness ==
    /\ phase = "day"
    /\ pc = "exit"
    /\ mem.stop = "no_new"
    /\ mem.no_new_pages = 3
    /\ mem.count = 1
    /\ Get(ckptStore[CurFile].data, "cursor", None) = mem.cursor

(* C33: every tweet of every page the client returned, the pages returned by
   result.next() included, is in the dedup index (and so in the CSV or its
   write buffer) once the cursor has been moved past that page *)
C33_NoFetchedPageSkipped ==
    mem.obtained \subseteq mem.existing_ids

(* C34: the collection loop of Dynamic_scrapping/init.py, once entered, is
   left and the run ends, whatever the client answers to each call (pages,
   empty pages, errors, rate limits with or without a reset time, any
   cursors), every call returning and every sleep ending *)
C34_LoopTerminates ==
    (pc = "loop") ~> (pc \in {"done", "crashed"})

(* a run of Dynamic_scrapping/init.py that met a rate limit, a search error,
   an empty page and a page with a new tweet has ended *)
C34_Witness ==
    /\ script = "dynInit"
    /\ pc = "done"
    /\ mem.errors > 0
    /\ mem.failures > 0
    /\ mem.count > 0
    /\ mem.cursor # None

(* C35: the collected count never exceeds MAX_TWEETS + BATCH_SIZE - 1: a
   search is issued only below MAX_TWEETS and a page of at most BATCH_SIZE
   tweets is recorded whole *)
C35_CountOvershootsByLessThanAPage ==
    /\ mem.count <= MAX_TWEETS + BATCH_SIZE - 1
    /\ (pc \in {"search", "ratewait", "errwait"}) => (mem.count < MAX_TWEETS)

(* a run that started below MAX_TWEETS has recorded a whole page and holds
   the largest count possible *)
C35_Witness ==
    /\ pc = "save"
    /\ mem.outcome = "new"
    /\ mem.count = MAX_TWEETS + BATCH_SIZE - 1
    /\ mem.count > MAX_TWEETS

(* the checkpoint file f holds a dict that meets a loop exit condition *)
ExitConditionSaved(f) ==
    /\ ckptStore[f].kind = "json"
    /\ \/ Get(ckptStore[f].data, "count", 0) >= MAX_TWEETS
       \/ /\ script = "tweet2"
          /\ Get(ckptStore[f].data, "consecutive_failures", 0) >= MaxFailures2

(* a run that found its while-condition false at the first test *)
StartedDone ==
    /\ ~mem.fetched
    /\ pc \in {"loop", "exit", "done"}
    /\ ~LoopCond(script, mem)

SameRecordRows ==
    \A f \in Files : RecordRows(sinkStore'[f]) = RecordRows(sinkStore[f])

(* C36: a run started from a checkpoint with count >= MAX_TWEETS, or in
   1k.tweet_2.py with consecutive_failures at its cap, finds its
   while-condition false at once, and from its start to its end no search is
   issued, no record row is appended and the checkpoint files stay as they
   are *)
C36_FinishedCheckpointRunIsIdle ==
    /\ [][(pc \in Stopped /\ pc' \in {"loop", "crashed"}
              /\ ExitConditionSaved(FileOf(script, query')))
            => (/\ pc' = "loop"
                /\ ~LoopCond(script, mem')
                /\ ~mem'.fetched
                /\ ckptStore' = ckptStore
                /\ SameRecordRows)]_vars
    /\ [][StartedDone
            => (/\ pc' # "search"
                /\ ckptStore' = ckptStore
                /\ SameRecordRows
                /\ (pc = "loop" /\ pc' # "killed") => (pc' = "exit")
                /\ (pc = "exit" /\ pc' # "killed") => (pc' = "done"))]_vars

(* 1k.tweet_2.py, started from a checkpoint whose consecutive_failures is at
   the cap and whose count is below MAX_TWEETS, has ended without a search *)
C36_Witness ==
    /\ script = "tweet2"
    /\ pc = "done"
    /\ StartedDone
    /\ mem.count < MAX_TWEETS
    /\ mem.failures >= MaxFailures2
    /\ ExitConditionSaved(CurFile)

(* 1k.tweet_2.py has had no iteration with a new tweet since the defaults
   (strategy_index 0, query_variations 0, consecutive_failures 0) *)
FailingStreak ==
    /\ script = "tweet2"
    /\ pc \in Running
    /\ mem.count = 0

(* the (strategy_index, query_variations) pairs, and those whose strategy
   index is the variation index mod 2 *)
AllPairings ==
    (0..(Len(SEARCH_STRATEGIES) - 1)) \X (0..(NumVariations - 1))
AlignedPairings ==
    {<<v % Len(SEARCH_STRATEGIES), v>> : v \in 0..(NumVariations - 1)}

(* C37: in 1k.tweet_2.py every failing iteration moves strategy_index and
   query_variations on by one each; in a streak of failing iterations from
   (0, 0) the pair is (failures mod 2, failures mod 8), so strategy_index =
   query_variations mod 2, the requests are made under 8 of the 16
   (strategy_index, query_variations) pairs, and the pair is (0, 0) again after 8 failures and not before *)
C37_IndicesAdvanceTogether ==
    /\ [][(script = "tweet2" /\ pc \in Running /\ pc' = "save"
                /\ mem'.failures = mem.failures + 1)
            => (/\ mem'.strategy_index = (mem.strategy_index + 1) % Len(SEARCH_STRATEGIES)
                /\ mem'.query_variations = (mem.query_variations + 1) % NumVariations
                /\ mem'.cursor = None)]_vars
    /\ [](FailingStreak
            => (/\ mem.query_variations = mem.failures % NumVariations
                /\ mem.strategy_index = mem.query_variations % Len(SEARCH_STRATEGIES)
                /\ (pc \in {"search", "ratewait", "errwait"})
                        => /\ <<mem.strategy_index, mem.query_variations>>
                                    \in AlignedPairings
                           /\ mem.fetched_under =
                                    Pairing(script, mem.product, mem.strategy_index,
                                            mem.query_variations)
                /\ (mem.strategy_index = 0 /\ mem.query_variations = 0)
                        <=> (mem.failures % NumVariations = 0)))
    /\ [](Cardinality(AlignedPairings) = 8 /\ Cardinality(AllPairings) = 16)

(* the eighth failure in a row of 1k.tweet_2.py: the indices are back at
   (0, 0) and the next request is made under the first pairing *)
C37_Witness ==
    /\ FailingStreak
    /\ pc = "search"
    /\ mem.failures = 8
    /\ mem.strategy_index = 0
    /\ mem.query_variations = 0
    /\ mem.fetched_under = Pairing("tweet2", "Latest", 0, 0)

(* C38: in main2.py, when main() returned None, run_all_operations ends
   having made no search, with tweets_2.csv as it was, and without raising *)
C38_NoClientEndsQuietly ==
    (phase = "main2" /\ mem.client = "none" /\ pc \in {"done", "crashed"})
        => (/\ ~mem.searched
            /\ sinkStore[TweetsFile] = mem.file0
            /\ pc = "done"
            /\ mem.raised = "none")
====
